---- MODULE Spec2Model ----
(***************************************************************************)
(* Model of common/buf/buffer.go: one Buffer (a window [start, end) into a *)
(* backing byte region) and the byte pool it acquires from and releases    *)
(* to.  One action per exported method; every action is the whole method,  *)
(* including the Require / Clear calls it makes.                           *)
(*                                                                         *)
(* Scaling.  The pool size (8192 in the source) and the width of the       *)
(* cursors (int32 in the source) are scaled down: Size bytes per pool      *)
(* region and IntBits-bit two's complement cursors.  All cursor arithmetic *)
(* goes through I32, which wraps exactly as Go's int32 does.               *)
(*                                                                         *)
(* A Go panic (slice bounds, nil dereference, panic("Invalid slice"))      *)
(* aborts the call: res = "panic" and the fields assigned before the       *)
(* panicking statement keep their new values.  Every slice the model       *)
(* builds has len = cap (pool regions and make() do; As is given full      *)
(* slices).                                                                *)
(***************************************************************************)
EXTENDS Integers, Sequences, FiniteSets, TLC

\* buffer.go:13  Size = 8192, the length of a pool region, scaled
Size == 1
\* buffer.go:23-24  start, end int32: the width of the cursor type, scaled
IntBits == 3

Byte == {0, 1}

MinInt32 == -(2 ^ (IntBits - 1))
MaxInt32 == (2 ^ (IntBits - 1)) - 1
Int32 == MinInt32 .. MaxInt32

\* Two's complement wrap-around of Go's fixed width signed arithmetic.
I32(x) == ((x - MinInt32) % (2 ^ IntBits)) + MinInt32

Min(x, y) == IF x <= y THEN x ELSE y

\* Byte slices of length n, and the slices handed in as arguments.
ByteSeqs(n) == [1 .. n -> Byte]
Data == UNION {ByteSeqs(n) : n \in 0 .. MaxInt32}
Zeros(n) == [i \in 1 .. n |-> 0]

(***************************************************************************)
(* Regions.  id tells where the slice came from: "p" pool.Get, "h" make(), *)
(* "x" the caller's bytes (As), "nil" the nil slice.  One buffer calls     *)
(* pool.Get at most once (in its constructor), so "p" names that region.   *)
(***************************************************************************)
NilSlice == [id |-> "nil", bytes |-> <<>>]
Make(n) == [id |-> "h", bytes |-> Zeros(n)]
Cap(v) == Len(v.bytes)

VARIABLES
    b,      \* the Buffer: [null, v, start, end, out]; null is the nil *Buffer
    gets,   \* regions handed out by pool.Get, in order
    puts,   \* calls of pool.Put, in order: [by, region, handle]
    op,     \* the last call (the constructor, in the initial state)
    res,    \* its outcome: "ok", "panic", "BufferFull", "EOF", "ShortRead"
    ret,    \* the count it returned (0 when it returns none)
    dst,    \* Read's destination slice after the call (<<>> otherwise)
    src,    \* From's argument, kept until the first call after it has returned
    wb,     \* number of calls so far when all were WriteByte on a fresh pool
            \* buffer (saturating at Size + 2), else -1
    rel     \* number of Release calls in a row just made (saturating at 2)

vars == <<b, gets, puts, op, res, ret, dst, src, wb, rel>>

NoSrc == <<2>>

\* The state a method works on and hands back.
Start == [b |-> b, puts |-> puts, res |-> "ok", ret |-> 0, dst |-> <<>>]
Panic(s) == [s EXCEPT !.res = "panic"]

\* v[lo:hi] is legal
SliceOK(v, lo, hi) == 0 <= lo /\ lo <= hi /\ hi <= Cap(v)

\* buffer.go:180-185
BufLen(buf) == IF buf.null THEN 0 ELSE I32(buf.end - buf.start)

\* buffer.go:188-190
IsEmpty(buf) == BufLen(buf) = 0

\* buffer.go:193-195
IsFull(buf) == ~buf.null /\ buf.end = Cap(buf.v)

\* buffer.go:98-100, the window; <<>> where the slice expression would panic
Bytes(buf) ==
    IF SliceOK(buf.v, buf.start, buf.end)
    THEN SubSeq(buf.v.bytes, buf.start + 1, buf.end)
    ELSE <<>>

\* copy(v[at:], data) for the first n bytes of data
CopyIn(v, at, data, n) ==
    [v EXCEPT !.bytes = [i \in 1 .. Len(v.bytes) |->
        IF at < i /\ i <= at + n THEN data[i - at] ELSE v.bytes[i]]]

\* pool.Put(p): the log keeps who called it, the region handed over and the
\* region the buffer's v field designates at that moment.
Put(s, by, p) ==
    [s EXCEPT !.puts = Append(s.puts,
        [by |-> by, region |-> p.id, handle |-> s.b.v.id])]

\* Clear that also makes the buffer recyclable again
ClearResetsOut(s) ==
    IF s.b.null THEN Panic(s)
    ELSE [s EXCEPT !.b.start = 0, !.b.end = 0, !.b.out = FALSE]

\* buffer.go:82-85
Clear(s) ==
    IF s.b.null THEN Panic(s)
    ELSE [s EXCEPT !.b.start = 0, !.b.end = 0]

\* Release that hands the region to the pool before it clears b.v
ReleasePutsFirst(s) ==
    IF s.b.null \/ s.b.v = NilSlice \/ s.b.out THEN s
    ELSE LET p == s.b.v
             s1 == Put(s, "Release", p)
         IN  Clear([s1 EXCEPT !.b.v = NilSlice])

\* Release without the b.v == nil test
ReleaseNoNilTest(s) ==
    IF s.b.null \/ s.b.out THEN s
    ELSE LET p == s.b.v
             s1 == [s EXCEPT !.b.v = NilSlice]
         IN  Put(Clear(s1), "Release", p)

\* Release without the b.out test
ReleaseNoOutTest(s) ==
    IF s.b.null \/ s.b.v = NilSlice THEN s
    ELSE LET p == s.b.v
             s1 == [s EXCEPT !.b.v = NilSlice]
         IN  Put(Clear(s1), "Release", p)

\* buffer.go:69-78
Release(s) ==
    IF s.b.null \/ s.b.v = NilSlice \/ s.b.out THEN s
    ELSE LET p == s.b.v
             s1 == [s EXCEPT !.b.v = NilSlice]
         IN  Put(Clear(s1), "Release", p)

\* Require that allocates the largest region whenever it has to grow
RequireRoundsUp(s, requiredLength) ==
    IF s.b.null THEN Panic(s)
    ELSE IF Cap(s.b.v) >= requiredLength THEN s
    ELSE LET nb == Make(MaxInt32)
             lo == s.b.start
             hi == s.b.end
         IN  IF ~(SliceOK(s.b.v, lo, hi) /\ SliceOK(nb, lo, hi)) THEN Panic(s)
             ELSE LET s1 == [s EXCEPT !.b.v =
                                 CopyIn(s.b.v, lo, SubSeq(nb.bytes, lo + 1, hi), hi - lo)]
                      s2 == IF ~s1.b.out
                            THEN Put([s1 EXCEPT !.b.out = TRUE], "Require", s1.b.v)
                            ELSE s1
                  IN  [s2 EXCEPT !.b.v = nb]

\* Require that hands the pool region over but leaves the buffer recyclable
RequireKeepsRecyclable(s, requiredLength) ==
    IF s.b.null THEN Panic(s)
    ELSE IF Cap(s.b.v) >= requiredLength THEN s
    ELSE LET nb == Make(requiredLength)
             lo == s.b.start
             hi == s.b.end
         IN  IF ~(SliceOK(s.b.v, lo, hi) /\ SliceOK(nb, lo, hi)) THEN Panic(s)
             ELSE LET s1 == [s EXCEPT !.b.v =
                                 CopyIn(s.b.v, lo, SubSeq(nb.bytes, lo + 1, hi), hi - lo)]
                      s2 == IF ~s1.b.out THEN Put(s1, "Require", s1.b.v) ELSE s1
                  IN  [s2 EXCEPT !.b.v = nb]

\* buffer.go:102-117.  copy(dst, src) is called with the old window as dst
\* and the new (zero) region as src.
Require(s, requiredLength) ==
    IF s.b.null THEN Panic(s)
    ELSE IF Cap(s.b.v) >= requiredLength THEN s
    ELSE LET nb == Make(requiredLength)
             lo == s.b.start
             hi == s.b.end
         IN  IF ~(SliceOK(s.b.v, lo, hi) /\ SliceOK(nb, lo, hi)) THEN Panic(s)
             ELSE LET s1 == [s EXCEPT !.b.v =
                                 CopyIn(s.b.v, lo, SubSeq(nb.bytes, lo + 1, hi), hi - lo)]
                      s2 == IF ~s1.b.out
                            THEN Put([s1 EXCEPT !.b.out = TRUE], "Require", s1.b.v)
                            ELSE s1
                  IN  [s2 EXCEPT !.b.v = nb]

\* buffer.go:121-127
Extend(s, n) ==
    IF s.b.null THEN Panic(s)
    ELSE LET end == I32(s.b.end + n)
             s1 == Require(s, end)
         IN  IF s1.res = "panic" THEN s1
             ELSE IF ~SliceOK(s1.b.v, s1.b.end, end) THEN Panic(s1)
             ELSE [s1 EXCEPT !.b.end = end]

\* The slice b.v[lo:hi] an accessor hands back: dst holds its bytes and ret
\* its offset in the region.
Slice(s, lo, hi) ==
    IF s.b.null \/ ~SliceOK(s.b.v, lo, hi) THEN Panic(s)
    ELSE [s EXCEPT !.ret = lo, !.dst = SubSeq(s.b.v.bytes, lo + 1, hi)]

\* buffer.go:130-138
BytesRange(s, from, to) ==
    LET f == IF from < 0 THEN I32(from + BufLen(s.b)) ELSE from
        t == IF to < 0 THEN I32(to + BufLen(s.b)) ELSE to
    IN  Slice(s, I32(s.b.start + f), I32(s.b.start + t))

\* buffer.go:141-146
BytesFrom(s, from) ==
    LET f == IF from < 0 THEN I32(from + BufLen(s.b)) ELSE from
    IN  Slice(s, I32(s.b.start + f), s.b.end)

\* BytesTo that does not count a negative index from Len()
BytesToNoNorm(s, to) == Slice(s, s.b.start, I32(s.b.start + to))

\* buffer.go:149-154
BytesTo(s, to) ==
    LET t == IF to < 0 THEN I32(to + BufLen(s.b)) ELSE to
    IN  Slice(s, s.b.start, I32(s.b.start + t))

\* Resize that does not count negative indexes from Len()
ResizeNoNorm(s, from, to) ==
    IF to < from THEN Panic(s)
    ELSE IF s.b.null THEN Panic(s)
    ELSE [s EXCEPT !.b.end = I32(s.b.start + to),
                   !.b.start = I32(s.b.start + from)]

\* Resize that moves start first and computes end from the moved start
ResizeFromMovedStart(s, from, to) ==
    LET f == IF from < 0 THEN I32(from + BufLen(s.b)) ELSE from
        t == IF to < 0 THEN I32(to + BufLen(s.b)) ELSE to
    IN  IF t < f THEN Panic(s)
        ELSE IF s.b.null THEN Panic(s)
        ELSE [s EXCEPT !.b.start = I32(s.b.start + f),
                       !.b.end = I32(I32(s.b.start + f) + t)]

\* buffer.go:157-169
Resize(s, from, to) ==
    LET f == IF from < 0 THEN I32(from + BufLen(s.b)) ELSE from
        t == IF to < 0 THEN I32(to + BufLen(s.b)) ELSE to
    IN  IF t < f THEN Panic(s)
        ELSE IF s.b.null THEN Panic(s)
        ELSE [s EXCEPT !.b.end = I32(s.b.start + t),
                       !.b.start = I32(s.b.start + f)]

\* Advance that does not count a negative index from Len()
AdvanceNoNorm(s, from) ==
    IF s.b.null THEN Panic(s)
    ELSE [s EXCEPT !.b.start = I32(s.b.start + from)]

\* Advance that takes from as an offset in the region, not in the window
AdvanceFromZero(s, from) ==
    LET f == IF from < 0 THEN I32(from + BufLen(s.b)) ELSE from
    IN  IF s.b.null THEN Panic(s)
        ELSE [s EXCEPT !.b.start = f]

\* buffer.go:172-177
Advance(s, from) ==
    LET f == IF from < 0 THEN I32(from + BufLen(s.b)) ELSE from
    IN  IF s.b.null THEN Panic(s)
        ELSE [s EXCEPT !.b.start = I32(s.b.start + f)]

\* buffer.go:198-203
Write(s, data) ==
    IF s.b.null THEN Panic(s)
    ELSE LET s1 == Require(s, I32(s.b.end + Len(data)))
         IN  IF s1.res = "panic" THEN s1
             ELSE IF ~SliceOK(s1.b.v, s1.b.end, Cap(s1.b.v)) THEN Panic(s1)
             ELSE LET nBytes == Min(Cap(s1.b.v) - s1.b.end, Len(data))
                  IN  [s1 EXCEPT !.b.v = CopyIn(s1.b.v, s1.b.end, data, nBytes),
                                 !.b.end = I32(s1.b.end + nBytes),
                                 !.ret = nBytes]

\* WriteByte that grows the buffer as Write does
WriteByteGrows(s, c) == Write(s, <<c>>)

\* buffer.go:206-213
WriteByte(s, c) ==
    IF IsFull(s.b) THEN [s EXCEPT !.res = "BufferFull"]
    ELSE IF s.b.null THEN Panic(s)
    ELSE IF ~(0 <= s.b.end /\ s.b.end < Cap(s.b.v)) THEN Panic(s)
    ELSE [s EXCEPT !.b.v = CopyIn(s.b.v, s.b.end, <<c>>, 1),
                   !.b.end = I32(s.b.end + 1)]

\* Read that advances start also when it drains the window
ReadNoClear(s, n) ==
    IF BufLen(s.b) = 0 THEN [s EXCEPT !.res = "EOF", !.dst = Zeros(n)]
    ELSE IF ~SliceOK(s.b.v, s.b.start, s.b.end) THEN Panic(s)
    ELSE LET nBytes == Min(n, s.b.end - s.b.start)
         IN  [s EXCEPT !.ret = nBytes,
                       !.dst = SubSeq(Bytes(s.b), 1, nBytes) \o Zeros(n - nBytes),
                       !.b.start = I32(s.b.start + nBytes)]

\* Read that clears the cursors also when it reports the end of the stream
ReadEOFClears(s, n) ==
    IF BufLen(s.b) = 0
    THEN IF s.b.null THEN [s EXCEPT !.res = "EOF", !.dst = Zeros(n)]
         ELSE [s EXCEPT !.res = "EOF", !.dst = Zeros(n), !.b.start = 0, !.b.end = 0]
    ELSE IF ~SliceOK(s.b.v, s.b.start, s.b.end) THEN Panic(s)
    ELSE LET nBytes == Min(n, s.b.end - s.b.start)
             s1 == [s EXCEPT !.ret = nBytes,
                             !.dst = SubSeq(Bytes(s.b), 1, nBytes) \o Zeros(n - nBytes)]
         IN  IF I32(nBytes) = BufLen(s.b) THEN Clear(s1)
             ELSE [s1 EXCEPT !.b.start = I32(s.b.start + nBytes)]

\* buffer.go:221-232, data a destination of n bytes (zero before the call)
Read(s, n) ==
    IF BufLen(s.b) = 0 THEN [s EXCEPT !.res = "EOF", !.dst = Zeros(n)]
    ELSE IF ~SliceOK(s.b.v, s.b.start, s.b.end) THEN Panic(s)
    ELSE LET nBytes == Min(n, s.b.end - s.b.start)
             s1 == [s EXCEPT !.ret = nBytes,
                             !.dst = SubSeq(Bytes(s.b), 1, nBytes) \o Zeros(n - nBytes)]
         IN  IF I32(nBytes) = BufLen(s.b) THEN Clear(s1)
             ELSE [s1 EXCEPT !.b.start = I32(s.b.start + nBytes)]

\* ReadFrom that makes room for one more byte before it reads
ReadFromGrows(s, data) ==
    IF s.b.null THEN Panic(s)
    ELSE LET s1 == Require(s, I32(Cap(s.b.v) + 1))
         IN  IF s1.res = "panic" THEN s1
             ELSE IF ~SliceOK(s1.b.v, s1.b.end, Cap(s1.b.v)) THEN Panic(s1)
             ELSE [s1 EXCEPT !.b.v = CopyIn(s1.b.v, s1.b.end, data, Len(data)),
                             !.b.end = I32(s1.b.end + Len(data)),
                             !.ret = Len(data)]

\* buffer.go:235-239.  reader.Read(p) stores data (at most len(p) bytes) in p
\* and returns len(data).
ReadFrom(s, data) ==
    IF s.b.null THEN Panic(s)
    ELSE IF ~SliceOK(s.b.v, s.b.end, Cap(s.b.v)) THEN Panic(s)
    ELSE [s EXCEPT !.b.v = CopyIn(s.b.v, s.b.end, data, Len(data)),
                   !.b.end = I32(s.b.end + Len(data)),
                   !.ret = Len(data)]

\* buffer.go:242-248.  io.ReadFull stores data (at most size bytes) and
\* reports a short read when it got fewer than size.
ReadFullFrom(s, size, data) ==
    IF s.b.null THEN Panic(s)
    ELSE LET end == I32(s.b.end + size)
             s1 == Require(s, end)
         IN  IF s1.res = "panic" THEN s1
             ELSE IF ~SliceOK(s1.b.v, s1.b.end, end) THEN Panic(s1)
             ELSE [s1 EXCEPT !.b.v = CopyIn(s1.b.v, s1.b.end, data, Len(data)),
                             !.b.end = I32(s1.b.end + Len(data)),
                             !.ret = Len(data),
                             !.res = IF Len(data) < size THEN "ShortRead" ELSE "ok"]

(***************************************************************************)
(* Constructors.  pool.Get hands out a region of Size bytes whose content  *)
(* is whatever its last user left there (stale).                           *)
(***************************************************************************)
Fresh(buf, got) == [b |-> buf, gets |-> got, puts |-> <<>>]

\* buffer.go:30-34
New(stale) ==
    Fresh([null |-> FALSE, v |-> [id |-> "p", bytes |-> stale],
           start |-> 0, end |-> 0, out |-> FALSE], <<"p">>)

\* buffer.go:62-66
StackNew(stale) ==
    Fresh([null |-> FALSE, v |-> [id |-> "p", bytes |-> stale],
           start |-> 0, end |-> 0, out |-> FALSE], <<"p">>)

\* As that leaves the wrapped bytes recyclable
AsRecyclable(data) ==
    Fresh([null |-> FALSE, v |-> [id |-> "x", bytes |-> data],
           start |-> 0, end |-> 0, out |-> FALSE], <<>>)

\* buffer.go:36-41
As(data) ==
    Fresh([null |-> FALSE, v |-> [id |-> "x", bytes |-> data],
           start |-> 0, end |-> 0, out |-> TRUE], <<>>)

\* Get that rounds a dedicated region up to the largest size
GetRoundsUp(size, stale) ==
    IF size <= Size THEN New(stale)
    ELSE Fresh([null |-> FALSE, v |-> Make(MaxInt32),
                start |-> 0, end |-> 0, out |-> TRUE], <<>>)

\* buffer.go:49-58
Get(size, stale) ==
    IF size <= Size THEN New(stale)
    ELSE Fresh([null |-> FALSE, v |-> Make(size),
                start |-> 0, end |-> 0, out |-> TRUE], <<>>)

\* buffer.go:43-47
From(data, stale) ==
    LET g == Get(I32(Len(data)), stale)
        w == Write([b |-> g.b, puts |-> g.puts, res |-> "ok", ret |-> 0,
                    dst |-> <<>>], data)
    IN  [b |-> w.b, gets |-> g.gets, puts |-> w.puts]

\* a nil *Buffer
NilBuffer ==
    Fresh([null |-> TRUE, v |-> NilSlice, start |-> 0, end |-> 0,
           out |-> FALSE], <<>>)

Constructed(name, c, data) ==
    /\ b = c.b
    /\ gets = c.gets
    /\ puts = c.puts
    /\ op = name
    /\ res = "ok"
    /\ ret = 0
    /\ dst = <<>>
    /\ src = data
    /\ wb = IF name \in {"New", "StackNew"} THEN 0 ELSE -1
    /\ rel = 0

Init ==
    \/ \E stale \in ByteSeqs(Size) : Constructed("New", New(stale), NoSrc)
    \/ \E stale \in ByteSeqs(Size) : Constructed("StackNew", StackNew(stale), NoSrc)
    \/ \E stale \in ByteSeqs(Size), size \in Int32 :
           Constructed("Get", Get(size, stale), NoSrc)
    \/ \E stale \in ByteSeqs(Size), data \in Data :
           Constructed("From", From(data, stale), data)
    \/ \E data \in Data : Constructed("As", As(data), NoSrc)
    \/ Constructed("nil", NilBuffer, NoSrc)

CtorOps == {"New", "StackNew", "Get", "From", "As", "nil"}

(***************************************************************************)
(* Calls.  Done(name, s) is the return of method name with outcome s.      *)
(***************************************************************************)
Done(name, s) ==
    /\ b' = s.b
    /\ puts' = s.puts
    /\ res' = s.res
    /\ ret' = s.ret
    /\ dst' = s.dst
    /\ op' = name
    /\ src' = IF op \in CtorOps THEN src ELSE NoSrc
    /\ wb' = IF name = "WriteByte" /\ wb >= 0 THEN Min(wb + 1, Size + 2) ELSE -1
    /\ rel' = IF name = "Release" THEN Min(rel + 1, 2) ELSE 0
    /\ UNCHANGED gets

ReleaseCall == Done("Release", Release(Start))
ClearCall == Done("Clear", Clear(Start))
RequireCall(n) == Done("Require", Require(Start, n))
ExtendCall(n) == Done("Extend", Extend(Start, n))
BytesRangeCall(from, to) == Done("BytesRange", BytesRange(Start, from, to))
BytesFromCall(from) == Done("BytesFrom", BytesFrom(Start, from))
BytesToCall(to) == Done("BytesTo", BytesTo(Start, to))
ResizeCall(from, to) == Done("Resize", Resize(Start, from, to))
AdvanceCall(from) == Done("Advance", Advance(Start, from))
WriteCall(data) == Done("Write", Write(Start, data))
WriteByteCall(c) == Done("WriteByte", WriteByte(Start, c))
ReadCall(n) == Done("Read", Read(Start, n))
ReadFromCall(data) == Done("ReadFrom", ReadFrom(Start, data))
ReadFullFromCall(size, data) == Done("ReadFullFrom", ReadFullFrom(Start, size, data))

\* What a well-behaved io.Reader can deliver into a slice of room bytes
\* (nothing when the call panics before it reads: room < 0).
Delivered(room) == {d \in Data : Len(d) = 0 \/ Len(d) <= room}

\* The room ReadFrom offers: len(b.v[b.end:]), 0 where that slice panics.
Room(buf) == IF SliceOK(buf.v, buf.end, Cap(buf.v)) THEN Cap(buf.v) - buf.end ELSE 0

\* Every call, with any integer arguments.
DoRequire == \E n \in Int32 : RequireCall(n)
DoExtend == \E n \in Int32 : ExtendCall(n)
DoResize == \E from \in Int32, to \in Int32 : ResizeCall(from, to)
DoAdvance == \E from \in Int32 : AdvanceCall(from)
DoWrite == \E data \in Data : WriteCall(data)
DoWriteByte == \E c \in Byte : WriteByteCall(c)
DoRead == \E n \in 0 .. MaxInt32 : ReadCall(n)
DoReadFrom == \E data \in Delivered(Room(b)) : ReadFromCall(data)
DoReadFullFrom == \E size \in Int32 : \E data \in Delivered(size) : ReadFullFromCall(size, data)

Next ==
    \/ ReleaseCall
    \/ ClearCall
    \/ DoRequire
    \/ DoExtend
    \/ DoResize
    \/ DoAdvance
    \/ DoWrite
    \/ DoWriteByte
    \/ DoRead
    \/ DoReadFrom
    \/ DoReadFullFrom

Spec == Init /\ [][Next]_vars

(***************************************************************************)
(* The same calls made by a caller that keeps to the index preconditions:  *)
(* Advance and Resize with indexes that normalise into the window, Extend  *)
(* and ReadFullFrom with a count >= 0, and no sum that leaves the cursor   *)
(* type.  The accessors BytesRange, BytesFrom and BytesTo, which leave the *)
(* buffer as it is, are called here with indexes inside the window.        *)
(***************************************************************************)
\* buffer.go:131-136 and the like: a negative index counts from Len()
Norm(buf, i) == IF i < 0 THEN I32(i + BufLen(buf)) ELSE i

AdvancePre(buf, from) ==
    0 <= Norm(buf, from) /\ Norm(buf, from) <= BufLen(buf)

ResizePre(buf, from, to) ==
    /\ 0 <= Norm(buf, from)
    /\ Norm(buf, from) <= Norm(buf, to)
    /\ Norm(buf, to) <= BufLen(buf)

CountPre(buf, n) == 0 <= n /\ buf.end + n <= MaxInt32

PreExtend == \E n \in Int32 : CountPre(b, n) /\ ExtendCall(n)
PreBytesRange ==
    \E from \in Int32, to \in Int32 : ResizePre(b, from, to) /\ BytesRangeCall(from, to)
PreBytesFrom == \E from \in Int32 : AdvancePre(b, from) /\ BytesFromCall(from)
PreBytesTo == \E to \in Int32 : AdvancePre(b, to) /\ BytesToCall(to)
PreResize == \E from \in Int32, to \in Int32 : ResizePre(b, from, to) /\ ResizeCall(from, to)
PreAdvance == \E from \in Int32 : AdvancePre(b, from) /\ AdvanceCall(from)
PreWrite == \E data \in Data : CountPre(b, Len(data)) /\ WriteCall(data)
PreReadFullFrom ==
    \E size \in Int32 : \E data \in Delivered(size) :
        CountPre(b, size) /\ ReadFullFromCall(size, data)

NextPre ==
    \/ ReleaseCall
    \/ ClearCall
    \/ DoRequire
    \/ PreExtend
    \/ PreBytesRange
    \/ PreBytesFrom
    \/ PreBytesTo
    \/ PreResize
    \/ PreAdvance
    \/ PreWrite
    \/ DoWriteByte
    \/ DoRead
    \/ DoReadFrom
    \/ PreReadFullFrom

SpecPre == Init /\ [][NextPre]_vars

\* 0 <= start <= end <= capacity(region)
WindowInv(buf) == 0 <= buf.start /\ buf.start <= buf.end /\ buf.end <= Cap(buf.v)

(***************************************************************************)
(* Claims                                                                  *)
(***************************************************************************)
\* The outcomes of every method on the current state: with any arguments
\* (anyIndex), or with Advance and Resize indexes that normalise into the
\* window.  Sources deliver between 0 and the offered room.
Outcomes(anyIndex) ==
    {Release(Start), Clear(Start)}
    \cup {Require(Start, n) : n \in Int32}
    \cup {Extend(Start, n) : n \in Int32}
    \cup {Resize(Start, ft[1], ft[2]) :
            ft \in {x \in Int32 \X Int32 : anyIndex \/ ResizePre(b, x[1], x[2])}}
    \cup {Advance(Start, from) :
            from \in {x \in Int32 : anyIndex \/ AdvancePre(b, x)}}
    \cup {Write(Start, data) : data \in Data}
    \cup {WriteByte(Start, c) : c \in Byte}
    \cup {Read(Start, n) : n \in 0 .. MaxInt32}
    \cup {ReadFrom(Start, data) : data \in Delivered(Room(b))}
    \cup {ReadFullFrom(Start, sd[1], sd[2]) :
            sd \in {x \in Int32 \X Data : x[2] \in Delivered(x[1])}}

\* C1 as stated: 0 <= start <= end <= capacity(region) holds after every
\* call of every sequence of calls with arbitrary integer arguments.
C1_WindowAfterAnyCall == WindowInv(b)

\* C1 amended: from a buffer whose window satisfies 0 <= start <= end <=
\* capacity(region), every call leaves it so, provided Advance(from) and
\* Resize(from, to) are called with indexes that normalise to
\* 0 <= from <= to <= Len(); all other methods take any arguments.
C1_WindowKeptByIndexedCalls ==
    WindowInv(b) => \A r \in Outcomes(FALSE) : WindowInv(r.b)

\* a Resize within the window has cut a window out of the middle of a region
C1_Witness ==
    /\ op = "Resize" /\ res = "ok"
    /\ 0 < b.start /\ b.start < b.end /\ b.end < Cap(b.v)

\* C2: growth preserves content: a Require leaves the window's bytes as
\* they were, and a Write leaves the window equal to the old window
\* followed by the bytes written, also when the region is reallocated.
C2_GrowthKeepsContent ==
    [][/\ \A n \in Int32 : RequireCall(n) => Bytes(b') = Bytes(b)
       /\ \A data \in Data :
            (WriteCall(data) /\ ~b.null /\ CountPre(b, Len(data)))
                => Bytes(b') = Bytes(b) \o data]_vars

\* C3: every value handed to pool.Put is a region this buffer got from
\* pool.Get, and none is handed back twice.
C3_PutsAreAcquiredOnce ==
    \A i \in DOMAIN puts :
        /\ \E j \in DOMAIN gets : gets[j] = puts[i].region
        /\ \A k \in DOMAIN puts : k # i => puts[k].region # puts[i].region

\* the regions that are in the pool: handed to pool.Put (the nil slice is none)
InPool == {puts[i].region : i \in DOMAIN puts} \ {"nil"}

\* C4: Release clears the buffer's region reference before it hands the
\* region to the pool, and between calls the reference never designates a
\* region that is in the pool.
C4_NoStaleHandle ==
    /\ \A i \in DOMAIN puts : puts[i].by = "Release" => puts[i].handle = "nil"
    /\ b.v.id \notin InPool

\* Release has handed the pool region back and the reference is nil
C4_Witness ==
    /\ op = "Release" /\ puts # <<>>
    /\ puts[Len(puts)] = [by |-> "Release", region |-> "p", handle |-> "nil"]
    /\ b.v = NilSlice

\* C5: Release twice in a row never aborts, the second call changes nothing
\* the first left, and the pool gets no region more than once.
C5_ReleaseIdempotent ==
    LET r1 == Release(Start)
        r2 == Release(r1)
    IN  /\ r1.res = "ok"
        /\ r2 = r1
        /\ \A i, k \in DOMAIN r2.puts :
             (i # k /\ r2.puts[i].region # "nil")
                 => r2.puts[i].region # r2.puts[k].region

\* Release was called twice in a row on a pool buffer: one region in the pool
C5_Witness ==
    /\ rel = 2 /\ res = "ok"
    /\ puts = <<[by |-> "Release", region |-> "p", handle |-> "nil"]>>
    /\ b.v = NilSlice

\* C6: a buffer that is not recyclable (out) stays so under every call,
\* whatever its arguments.
C6_OutIsSticky == b.out => \A r \in Outcomes(TRUE) : r.b.out

\* a buffer grown out of the pool and then drained by Read is still out
C6_Witness ==
    /\ op = "Read" /\ res = "ok" /\ b.start = 0 /\ b.end = 0
    /\ b.v.id = "h" /\ Len(puts) = 1 /\ b.out

\* C7 as stated: Release of a buffer whose region is not pool-owned clears
\* the cursors, hands nothing to the pool and leaves region and flag alone.
C7_ReleaseOfUnownedClearsCursors ==
    [][(ReleaseCall /\ b.out) =>
          /\ b'.start = 0 /\ b'.end = 0
          /\ puts' = puts /\ b'.v = b.v /\ b'.out = b.out]_vars

\* C7 amended: Release of a buffer whose region is not pool-owned changes
\* nothing: start, end, region and flag stay, nothing goes to the pool.
C7_ReleaseOfUnownedIsNoOp ==
    [][(ReleaseCall /\ b.out) => (b' = b /\ puts' = puts /\ res' = "ok")]_vars

\* Release returned on a non-recyclable buffer that still holds bytes
C7_Witness == op = "Release" /\ b.out /\ b.end > b.start /\ b.v.id # "nil"

\* C8: From(bytes), then one Read into a destination of len(bytes): the
\* destination holds bytes and the buffer is empty with start = end = 0.
C8_FromReadRoundTrip ==
    (op = "Read" /\ src # NoSrc /\ Len(dst) = Len(src)) =>
        /\ dst = src
        /\ b.start = 0 /\ b.end = 0 /\ BufLen(b) = 0
        /\ Len(src) > 0 => (res = "ok" /\ ret = Len(src))

\* the round trip of bytes longer than a pool region
C8_Witness ==
    /\ op = "Read" /\ src # NoSrc /\ Len(src) > Size
    /\ dst = src /\ b.end = 0

\* C9: WriteByte fails with BufferFull exactly when end = capacity and then
\* changes nothing; otherwise it stores the byte at end and adds one to
\* end, in the same region.  On a fresh pool buffer the first Size calls
\* succeed and the next fails.
C9_WriteByteNeverGrows ==
    /\ ~b.null => \A c \in Byte :
         LET r == WriteByte(Start, c)
         IN  /\ (r.res = "BufferFull") <=> (b.end = Cap(b.v))
             /\ r.res = "BufferFull" => (r.b = b /\ r.puts = puts)
             /\ r.res # "BufferFull" =>
                  /\ r.res = "ok"
                  /\ r.b.end = b.end + 1
                  /\ r.b.v.bytes[b.end + 1] = c
                  /\ r.b.start = b.start /\ r.b.out = b.out
                  /\ r.b.v.id = b.v.id /\ Cap(r.b.v) = Cap(b.v)
                  /\ r.puts = puts
    /\ wb >= 1 =>
         /\ (res = "ok") <=> (wb <= Size)
         /\ res \in {"ok", "BufferFull"}
         /\ b.end = Min(wb, Size)

\* call Size + 1 on a fresh pool buffer has failed
C9_Witness == wb = Size + 1 /\ res = "BufferFull" /\ b.end = Size

\* C10: Resize(from, to), negative indexes counted from Len(): if to < from
\* it aborts and leaves the buffer as it was; otherwise start becomes the
\* old start + from and end the old start + to (sums in the cursor type),
\* region and flag unchanged.
C10_Resize ==
    ~b.null => \A from \in Int32, to \in Int32 :
        LET f == Norm(b, from)
            t == Norm(b, to)
            r == Resize(Start, from, to)
        IN  IF t < f
            THEN r.res = "panic" /\ r.b = b /\ r.puts = puts
            ELSE /\ r.res = "ok"
                 /\ r.b.start = I32(b.start + f)
                 /\ r.b.end = I32(b.start + t)
                 /\ r.b.v = b.v /\ r.b.out = b.out /\ r.puts = puts

\* a Resize has returned and left a window that starts past offset 0
C10_Witness == op = "Resize" /\ res = "ok" /\ b.start = 1 /\ b.end = 2

\* C11: Read into a destination of n bytes.  On an empty window it reports
\* the end of the stream, returns 0 and changes nothing.  Otherwise it
\* returns k = min(n, Len()), the destination starts with the first k
\* bytes of the window, and either k = Len() and start = end = 0, or start
\* has moved by k and end has not; region, flag and pool stay.  A Read
\* that returns with start = end leaves them at 0.
C11_Read ==
    /\ \A n \in 0 .. MaxInt32 :
         LET r == Read(Start, n)
             L == BufLen(b)
             k == Min(n, L)
         IN  IF L = 0
             THEN /\ r.res = "EOF" /\ r.ret = 0
                  /\ r.b = b /\ r.puts = puts /\ r.dst = Zeros(n)
             ELSE /\ r.res = "ok" /\ r.ret = k
                  /\ r.dst = SubSeq(Bytes(b), 1, k) \o Zeros(n - k)
                  /\ r.b.v = b.v /\ r.b.out = b.out /\ r.puts = puts
                  /\ IF k = L
                     THEN r.b.start = 0 /\ r.b.end = 0
                     ELSE r.b.start = b.start + k /\ r.b.end = b.end
    /\ (op = "Read" /\ res = "ok" /\ b.start = b.end) => b.start = 0

\* a Read has taken one byte of a longer window
C11_Witness ==
    /\ op = "Read" /\ res = "ok" /\ ret = 1 /\ Len(dst) = 1
    /\ b.start = 1 /\ b.end > 1

\* C12: Get(n) with n <= Size gives a recyclable buffer on one region taken
\* from the pool, of length 0; Get(n) with n > Size takes nothing from the
\* pool and gives a non-recyclable buffer of length 0 on a region of
\* exactly n bytes.
C12_Get ==
    /\ \A size \in Int32, stale \in ByteSeqs(Size) :
         LET g == Get(size, stale)
         IN  /\ ~g.b.null /\ BufLen(g.b) = 0 /\ g.b.start = 0 /\ g.puts = <<>>
             /\ IF size <= Size
                THEN /\ ~g.b.out /\ g.gets = <<"p">>
                     /\ g.b.v.id = "p" /\ Cap(g.b.v) = Size
                ELSE /\ g.b.out /\ g.gets = <<>>
                     /\ g.b.v.id = "h" /\ Cap(g.b.v) = size
    /\ op = "Get" =>
         /\ BufLen(b) = 0 /\ puts = <<>>
         /\ \/ ~b.out /\ gets = <<"p">> /\ b.v.id = "p" /\ Cap(b.v) = Size
            \/ b.out /\ gets = <<>> /\ b.v.id = "h" /\ Cap(b.v) > Size

\* Get has made a dedicated region larger than a pool region
C12_Witness ==
    /\ op = "Get" /\ b.out /\ gets = <<>>
    /\ Cap(b.v) = MaxInt32 /\ MaxInt32 > Size

\* C13: a buffer made by As took nothing from the pool (gets is empty, and
\* no call changes gets); such a buffer is non-recyclable in every state
\* and nothing is ever handed to the pool on its behalf, whatever is
\* called on it with whatever arguments.
C13_WrappedNeverPooled ==
    /\ op = "As" => (gets = <<>> /\ b.v.id = "x")
    /\ (gets = <<>> /\ ~b.null) => (b.out /\ puts = <<>>)
    /\ \A i \in DOMAIN puts : puts[i].region # "x"

\* Release has returned on a wrapped buffer that holds bytes
C13_Witness ==
    /\ op = "Release" /\ b.v.id = "x" /\ b.end > b.start
    /\ b.out /\ puts = <<>>

\* C14: Write(data) on any buffer whose window is in order returns
\* len(data) and no error, adds len(data) to end, leaves start, and the
\* region holds data at [old end, new end), also when end + len(data) is
\* more than the cursor type holds.
C14_WriteNeverTruncates ==
    [][\A data \in Data :
         (WriteCall(data) /\ ~b.null /\ WindowInv(b)) =>
            /\ res' = "ok" /\ ret' = Len(data)
            /\ b'.end = b.end + Len(data)
            /\ b'.start = b.start
            /\ Cap(b'.v) >= b.end + Len(data)
            /\ SubSeq(b'.v.bytes, b.end + 1, b.end + Len(data)) = data]_vars

\* C15 as stated: in every state of a buffer, Advance(Len()) leaves the
\* window empty with end, region and flag as they were.
C15_AdvanceLenEmptiesAnyWindow ==
    [][(AdvanceCall(BufLen(b)) /\ ~b.null) =>
          /\ IsEmpty(b') /\ b'.end = b.end
          /\ b'.v = b.v /\ b'.out = b.out]_vars

\* C15 amended: in every state of a buffer with Len() >= 0, Advance(Len())
\* leaves the window empty with end, region, flag and pool as they were;
\* in every state Clear gives start = end = 0, Len() = 0, IsFull() false
\* unless the capacity is 0, and region, flag and pool as they were.
C15_AdvanceLenAndClear ==
    ~b.null =>
        LET a == Advance(Start, BufLen(b))
            c == Clear(Start)
        IN  /\ BufLen(b) >= 0 =>
                 /\ a.res = "ok" /\ IsEmpty(a.b) /\ a.b.end = b.end
                 /\ a.b.v = b.v /\ a.b.out = b.out /\ a.puts = puts
            /\ c.res = "ok" /\ c.b.start = 0 /\ c.b.end = 0
            /\ BufLen(c.b) = 0
            /\ IsFull(c.b) <=> (Cap(b.v) = 0)
            /\ c.b.v = b.v /\ c.b.out = b.out /\ c.puts = puts

\* an Advance has emptied a window that ends past offset 0
C15_Witness ==
    /\ op = "Advance" /\ res = "ok"
    /\ b.start = b.end /\ b.end > 0 /\ b.end <= Cap(b.v)

\* C16: with L = Len(), an index i with -L <= i < 0 gives BytesRange,
\* BytesFrom, BytesTo, Resize and Advance the outcome that i + L gives
\* them (the same slice, the same cursors, the same abort); for L >= 2
\* BytesRange(-2, -1) is BytesRange(L - 2, L - 1), the last byte but one.
C16_NegativeIndex ==
    LET L == BufLen(b)
        Up(i) == IF i < 0 THEN i + L ELSE i
    IN  /\ \A i \in (0 - L) .. MaxInt32, j \in (0 - L) .. MaxInt32 :
             /\ BytesRange(Start, i, j) = BytesRange(Start, Up(i), Up(j))
             /\ Resize(Start, i, j) = Resize(Start, Up(i), Up(j))
        /\ \A i \in (0 - L) .. (0 - 1) :
             /\ BytesFrom(Start, i) = BytesFrom(Start, i + L)
             /\ BytesTo(Start, i) = BytesTo(Start, i + L)
             /\ Advance(Start, i) = Advance(Start, i + L)
        /\ L >= 2 =>
             /\ BytesRange(Start, 0 - 2, 0 - 1) = BytesRange(Start, L - 2, L - 1)
             /\ BytesRange(Start, 0 - 2, 0 - 1).res = "ok"
             /\ BytesRange(Start, 0 - 2, 0 - 1).dst = <<Bytes(b)[L - 1]>>

\* BytesRange has handed back the last byte but one of a window
C16_Witness ==
    /\ op = "BytesRange" /\ res = "ok"
    /\ BufLen(b) >= 2 /\ ret = b.end - 2 /\ Len(dst) = 1

\* C17: Require(n) on a region of at least n bytes changes nothing (region,
\* cursors, flag, pool); otherwise the buffer ends on a new region of
\* exactly n bytes with start and end as they were.
C17_RequireSizing ==
    ~b.null => \A n \in Int32 :
        LET r == Require(Start, n)
        IN  IF Cap(b.v) >= n
            THEN r = Start
            ELSE /\ r.res = "ok"
                 /\ r.b.v.id = "h" /\ Cap(r.b.v) = n
                 /\ r.b.start = b.start /\ r.b.end = b.end

\* Require has moved a pool buffer to a region one byte larger
C17_Witness ==
    /\ op = "Require" /\ res = "ok" /\ gets = <<"p">>
    /\ b.v.id = "h" /\ Cap(b.v) = Size + 1

\* The outcomes of the calls that can reallocate the region.
Growers ==
    {Require(Start, n) : n \in Int32}
    \cup {Extend(Start, n) : n \in Int32}
    \cup {Write(Start, data) : data \in Data}
    \cup {ReadFullFrom(Start, sd[1], sd[2]) :
            sd \in {x \in Int32 \X Data : x[2] \in Delivered(x[1])}}

\* C18: a call that reallocates a recyclable buffer on a pool region hands
\* that region to the pool once, in that call, and leaves the buffer
\* non-recyclable; a Release after it hands nothing over and keeps the
\* new region.  A call that reallocates a non-recyclable buffer hands
\* nothing to the pool.
C18_HandOffAtGrowth ==
    /\ ~b.null => \A r \in Growers :
         (r.res # "panic" /\ Cap(r.b.v) # Cap(b.v)) =>
            /\ (~b.out /\ b.v.id = "p") =>
                 /\ r.puts = Append(puts, [by |-> "Require", region |-> "p",
                                           handle |-> "p"])
                 /\ r.b.out /\ r.b.v.id = "h"
                 /\ Release(r) = r
            /\ b.out => (r.puts = puts /\ r.b.out)
    /\ (b.out /\ b.v.id = "h") => Release(Start) = Start
    /\ Cardinality({i \in DOMAIN puts : puts[i].region = "p"}) <= 1

\* Release has returned on a buffer that grew out of its pool region
C18_Witness ==
    /\ op = "Release" /\ b.v.id = "h" /\ b.out /\ gets = <<"p">>
    /\ puts = <<[by |-> "Require", region |-> "p", handle |-> "p"]>>

\* C19: ReadFrom offers the source capacity - end bytes; for a source that
\* returns n bytes, 0 <= n <= room, it stores them at the old end, adds n
\* to end, which stays within the capacity, and leaves the region (same
\* one, same capacity), start, flag and pool; a full or released buffer
\* offers no room and end stays.
C19_ReadFromNeverGrows ==
    ~b.null =>
        /\ Room(b) = Cap(b.v) - b.end
        /\ (IsFull(b) \/ b.v = NilSlice) => Room(b) = 0
        /\ \A data \in Delivered(Room(b)) :
             LET r == ReadFrom(Start, data)
             IN  /\ r.res = "ok" /\ r.ret = Len(data)
                 /\ r.b.end = b.end + Len(data) /\ r.b.end <= Cap(b.v)
                 /\ SubSeq(r.b.v.bytes, b.end + 1, r.b.end) = data
                 /\ r.b.v.id = b.v.id /\ Cap(r.b.v) = Cap(b.v)
                 /\ r.b.start = b.start /\ r.b.out = b.out /\ r.puts = puts

\* ReadFrom has filled the room left in an overflow region
C19_Witness ==
    /\ op = "ReadFrom" /\ res = "ok" /\ ret > 0
    /\ b.v.id = "h" /\ b.end = Cap(b.v)

\* C20: when every call keeps to its index preconditions (SpecPre),
\* 0 <= start <= end <= capacity(region) holds after every call, also
\* after calls made on a released buffer.
C20_WindowUnderPreconditions ==
    /\ 0 <= b.start
    /\ b.start <= b.end
    /\ b.end <= Cap(b.v)

\* a released buffer was written to again and holds a window
C20_Witness ==
    /\ op \in {"Write", "Extend", "ReadFullFrom"} /\ res # "panic"
    /\ puts # <<>> /\ puts[1].by = "Release"
    /\ 0 < b.end /\ b.end <= Cap(b.v)

====
